---- MODULE Spec2Model ----
(***************************************************************************)
(* A model of grok-cli (src/src/main.rs): the command-line pipeline that   *)
(* reads lines from the files matched by a glob, matches each line with a  *)
(* compiled grok pattern, and writes CSV / JSON records and statistics to  *)
(* the console or to a pair of files.                                      *)
(*                                                                         *)
(* The program is single threaded.  main() is cut into its calls: argument *)
(* check, FileInput::new, GrokParser::new, FileOutput::new, and then the   *)
(* loop read_line / parse / output, and the final statistics.              *)
(***************************************************************************)
EXTENDS Integers, Sequences, FiniteSets, TLC

\* ---------------------------------------------------------------- bounds
MaxFiles == 3       \* paths the glob yields, at most
MaxLines == 2       \* lines per input file, at most
MaxAliasLines == 2  \* lines in the definition files of a patterns directory
MaxLineLen == 3     \* characters in a line of text, without its terminator

\* ------------------------------------------------------- sequence helpers
Range(s) == {s[i] : i \in DOMAIN s}

RECURSIVE SumLen(_)
SumLen(fs) == IF fs = <<>> THEN 0 ELSE Head(fs).len + SumLen(Tail(fs))

\* Byte-wise lexicographic order of two strings (sequences of byte codes),
\* the Ord of Rust's String that BTreeMap and Vec::sort use.
RECURSIVE StrLess(_, _)
StrLess(x, y) ==
    IF y = <<>> THEN FALSE
    ELSE IF x = <<>> THEN TRUE
    ELSE IF Head(x) # Head(y) THEN Head(x) < Head(y)
    ELSE StrLess(Tail(x), Tail(y))

\* The elements of a finite set of strings in ascending order.
RECURSIVE Sorted(_)
Sorted(S) ==
    IF S = {} THEN <<>>
    ELSE LET m == CHOOSE x \in S : \A y \in S \ {x} : StrLess(x, y)
         IN  <<m>> \o Sorted(S \ {m})

\* ------------------------------------------------------------ input data
\* An input file is the number of its lines and how it can be read:
\* "none" = readable, "open" = opening it fails (or the glob iterator
\* yields an error for it), "read" = it opens but reading fails
\* (a directory, invalid UTF-8).
FileKinds ==
    [len : 0..MaxLines, fault : {"none"}] \cup [len : {0}, fault : {"open", "read"}]

RECURSIVE SeqsUpTo(_, _)
SeqsUpTo(S, n) ==
    IF n = 0 THEN {<<>>}
    ELSE LET shorter == SeqsUpTo(S, n - 1)
         IN  shorter \cup {Append(s, x) : s \in {t \in shorter : Len(t) = n - 1}, x \in S}

\* Field names as byte strings: "a" and "a b".
KeyA   == <<97>>
KeyASB == <<97, 32, 98>>
\* The field maps the matcher can return for a matching line (their keys;
\* the value of key k on line l is the pair <<l, k>>).
FieldMaps == {{}, {KeyA, KeyASB}}
\* What the matcher answers for a line: no match, or a field map.
NoMatch == [ok |-> FALSE, map |-> {}]
Matched(m) == [ok |-> TRUE, map |-> m]
MatchResults == {NoMatch} \cup {Matched(m) : m \in FieldMaps}

\* Fragment catalogue of the grok library and the aliases the patterns
\* directory defines.
\* Fragment names are text: "IP" and "client".
NameIP     == <<73, 80>>
NameClient == <<99, 108, 105, 101, 110, 116>>
Builtin == {NameIP}
Aliases == {NameClient}
\* The fragment a template refers to.
Refs(pattern) == IF pattern = "%{IP}" THEN {NameIP} ELSE {NameClient}

Options ==
    [pattern     : {"%{IP}", "%{client}"},
     output      : BOOLEAN,
     patterns    : {"none", "dir", "missing"},
     no_patterns : BOOLEAN,
     csv         : BOOLEAN,
     json        : BOOLEAN]

\* What is at the output path P and at err_path before the run.  err_path
\* is an entry of P, so it can only exist when P is a directory.
InitialFs ==
    {[path |-> "absent", err |-> "absent", data |-> <<>>, errdata |-> <<>>],
     [path |-> "file", err |-> "absent", data |-> <<[kind |-> "old"]>>, errdata |-> <<>>],
     [path |-> "dir", err |-> "absent", data |-> <<>>, errdata |-> <<>>],
     [path |-> "dir", err |-> "file", data |-> <<>>, errdata |-> <<[kind |-> "old"]>>]}

VARIABLES
    opt,            \* args::Options
    files,          \* what the glob yields, in its order
    fs0,            \* the output paths before the run
    fs,             \* the output paths now
    console,        \* [out, err]: what was printed to stdout and stderr
    paths,          \* FileInput.paths: indices of files not yet yielded
    current_reader, \* FileInput.current_reader: [file, pos]
    grok,           \* the catalogue of the compiled GrokParser
    sink,           \* "none" | "print" | "file": the Box<dyn Output>
    stats,          \* stats::Stats
    headers,        \* main's headers vector
    a,              \* the line of the current iteration, <<file, index>>
    parsed,         \* the result of parse for that line
    pc,             \* where main is
    exit,           \* "running" | "ok" | "exit1" | "err"
    ret,            \* the kind of the last return of read_line
    opened,         \* history: input files opened, in order
    yielded,        \* history: lines read_line returned
    outcome,        \* history: parse result of each yielded line
    ioError,        \* history: an input open or read has failed
    call            \* a single call of one function: [fn, in, out, done]

vars == <<opt, files, fs0, fs, console, paths, current_reader, grok, sink, stats,
          headers, a, parsed, pc, exit, ret, opened, yielded, outcome, ioError,
          call>>

NoReader == [file |-> 0, pos |-> 0]

NoCall == [fn |-> "none", done |-> TRUE]
FreshFs == [path |-> "absent", err |-> "absent", data |-> <<>>, errdata |-> <<>>]

\* The state of main before its first statement.
ProgramStart ==
    /\ fs = fs0
    /\ console = [out |-> <<>>, err |-> <<>>]
    /\ paths = <<>>
    /\ current_reader = NoReader
    /\ grok = {}
    /\ sink = "none"
    /\ stats = [parsed |-> 0, failed |-> 0]
    /\ headers = <<>>
    /\ a = <<0, 0>>
    /\ parsed = NoMatch
    /\ pc = "args"
    /\ exit = "running"
    /\ ret = "init"
    /\ opened = <<>>
    /\ yielded = <<>>
    /\ outcome = <<>>
    /\ ioError = FALSE

Init ==
    /\ opt \in Options
    /\ files \in SeqsUpTo(FileKinds, MaxFiles)
    /\ fs0 \in InitialFs
    /\ (~opt.output => fs0 = FreshFs)
    /\ ProgramStart
    /\ call = NoCall

\* ------------------------------------------------------------ glob module
\* glob::Paths::next on a non-empty iterator: the next path in the glob's
\* order, and the iterator after it.
PathsNextBack(ps) == [item |-> ps[Len(ps)], rest |-> SubSeq(ps, 1, Len(ps) - 1)]
PathsNext(ps) == [item |-> Head(ps), rest |-> Tail(ps)]

\* BufReader::read_line on reader rd: "err", "eof" (zero bytes read) or
\* "line" with the line read and the reader advanced.
BufReadLine(rd) ==
    IF files[rd.file].fault = "read"
    THEN [res |-> "err", line |-> <<0, 0>>, rd |-> rd]
    ELSE IF rd.pos < files[rd.file].len
    THEN [res |-> "line", line |-> <<rd.file, rd.pos + 1>>,
          rd |-> [rd EXCEPT !.pos = rd.pos + 1]]
    ELSE [res |-> "eof", line |-> <<0, 0>>, rd |-> rd]

\* fs::OpenOptions::new().read(true).open(path) of input file f.
OpenInput(f) == files[f].fault # "open"

\* FileInput::read_line.  The result: ret is "some" (Ok(Some(line))),
\* "none" (Ok(None)) or "err"; ps and rd are the fields afterwards and
\* newly the files it opened.
FileInputReadLine(ps, rd) ==
    LET r == BufReadLine(rd) IN
    IF r.res = "err"
    THEN [ret |-> "err", line |-> <<0, 0>>, ps |-> ps, rd |-> rd, newly |-> <<>>]
    ELSE IF r.res = "line"
    THEN [ret |-> "some", line |-> r.line, ps |-> ps, rd |-> r.rd, newly |-> <<>>]
    ELSE IF ps = <<>>
    THEN [ret |-> "none", line |-> <<0, 0>>, ps |-> ps, rd |-> rd, newly |-> <<>>]
    ELSE LET n  == PathsNext(ps)
             p  == n.item
             r2 == BufReadLine([file |-> p, pos |-> 0])
         IN  IF ~OpenInput(p)
             THEN [ret |-> "err", line |-> <<0, 0>>, ps |-> n.rest, rd |-> rd,
                   newly |-> <<>>]
             ELSE IF r2.res = "err"
             THEN [ret |-> "err", line |-> <<0, 0>>, ps |-> n.rest, rd |-> rd,
                   newly |-> <<p>>]
             \* the line read from the new reader is bound to an inner
             \* variable; the outer line is still empty, so Ok(None)
             ELSE [ret |-> "none", line |-> <<0, 0>>, ps |-> n.rest, rd |-> r2.rd,
                   newly |-> <<p>>]

\* --------------------------------------------------------- outputs module
\* PathBuf::exists
Exists(kind) == kind # "absent"

\* FileOutput::new: TRUE when it returns Ok.
FileOutputNew(f) ==
    LET c == <<Exists(f.err), ~Exists(f.path)>>
    IN  c = <<FALSE, FALSE>>

\* OpenOptions::new().create(true).append(true).open(..) of the data path,
\* whose parent directory exists, and of err_path, whose parent is the
\* data path.
CanAppendData(f) == f.path \in {"absent", "file"}
CanAppendErr(f)  == f.path = "dir" /\ f.err \in {"absent", "file"}

\* PrintOutput::output and FileOutput::output.  w is [fs, console], res is
\* [ok, text]; the result is [ok, w]: whether output returned Ok, and the
\* files and streams afterwards.
OutputTruncate(snk, w, res) ==
    IF snk = "print"
    THEN IF res.ok
         THEN [ok |-> TRUE, w |-> [w EXCEPT !.console.out = Append(@, res.text)]]
         ELSE [ok |-> TRUE, w |-> [w EXCEPT !.console.err = Append(@, res.text)]]
    ELSE IF res.ok
         THEN IF CanAppendData(w.fs)
              THEN [ok |-> TRUE,
                    w |-> [w EXCEPT !.fs.path = "file", !.fs.data = <<res.text>>]]
              ELSE [ok |-> FALSE, w |-> w]
         ELSE IF CanAppendErr(w.fs)
              THEN [ok |-> TRUE,
                    w |-> [w EXCEPT !.fs.err = "file", !.fs.errdata = <<res.text>>]]
              ELSE [ok |-> FALSE, w |-> w]
Output(snk, w, res) ==
    IF snk = "print"
    THEN IF res.ok
         THEN [ok |-> TRUE, w |-> [w EXCEPT !.console.out = Append(@, res.text)]]
         ELSE [ok |-> TRUE, w |-> [w EXCEPT !.console.err = Append(@, res.text)]]
    ELSE IF res.ok
         THEN IF CanAppendData(w.fs)
              THEN [ok |-> TRUE,
                    w |-> [w EXCEPT !.fs.path = "file", !.fs.data = Append(@, res.text)]]
              ELSE [ok |-> FALSE, w |-> w]
         ELSE IF CanAppendErr(w.fs)
              THEN [ok |-> TRUE,
                    w |-> [w EXCEPT !.fs.err = "file", !.fs.errdata = Append(@, res.text)]]
              ELSE [ok |-> FALSE, w |-> w]

\* A sequence of output(..)? calls: stops at the first that fails.
RECURSIVE OutputAll(_, _, _)
OutputAll(snk, w, rs) ==
    IF rs = <<>> THEN [ok |-> TRUE, w |-> w]
    ELSE LET o == Output(snk, w, Head(rs))
         IN  IF o.ok THEN OutputAll(snk, o.w, Tail(rs)) ELSE o

Ok(text)  == [ok |-> TRUE, text |-> text]
Err(text) == [ok |-> FALSE, text |-> text]

\* ----------------------------------------------------- grok_parser module
\* The catalogue GrokParser::new compiles the pattern against.
\* The Some(d) arm: the catalogue seeded with the names read_aliases gave.
CatalogWith(names, no_patterns) ==
    (IF no_patterns THEN {} ELSE Builtin) \cup names

GrokCatalog(patterns, no_patterns) ==
    IF patterns = "none" THEN Builtin
    ELSE CatalogWith(Aliases, no_patterns)

\* read_aliases returns Ok
ReadAliasesOk(patterns) == patterns # "missing"

\* Grok::compile succeeds when every fragment of the template is defined.
Compiles(pattern, catalog) == Refs(pattern) \subseteq catalog

\* GrokParser::parse: the counters after a call whose match result is m.
ParseStatsBoth(st, m) ==
    IF m = NoMatch THEN [st EXCEPT !.failed = @ + 1]
    ELSE [st EXCEPT !.parsed = @ + 1, !.failed = @ + 1]
ParseStats(st, m) ==
    IF m = NoMatch THEN [st EXCEPT !.failed = @ + 1]
    ELSE [st EXCEPT !.parsed = @ + 1]

\* ------------------------------------------------------------------- main
Quote(k) == <<34>> \o k \o <<34>>

\* headers = parsed.keys().map(quote).collect(); headers.sort()
HeaderOf(m) == Sorted({Quote(k) : k \in m})
\* parsed.values(): the values in the order of the map's keys
ValuesOf(m) == Sorted(m)

\* vec!["parsed", "failed"]: the two names as they are joined and written
StatsHeader == <<(<<112, 97, 114, 115, 101, 100>>), (<<102, 97, 105, 108, 101, 100>>)>>
\* vec![stats.parsed.to_string(), stats.failed.to_string()]
StatsRowSwapped(st) == <<st.failed, st.parsed>>
StatsRow(st) == <<st.parsed, st.failed>>

World == [fs |-> fs, console |-> console]

\* process::exit(1) after printing msg to stderr
Exit1(msg) ==
    /\ console' = [console EXCEPT !.err = Append(@, [kind |-> "fatal", src |-> msg])]
    /\ exit' = "exit1"
    /\ pc' = "done"

\* main returns Err(e): the runtime prints it and the status is non-zero
MainErr(w) ==
    /\ fs' = w.fs
    /\ console' = [w.console EXCEPT !.err = Append(@, [kind |-> "fatal", src |-> "main"])]
    /\ exit' = "err"
    /\ pc' = "done"

CheckArgs ==
    /\ pc = "args"
    /\ IF opt.json /\ opt.csv
       THEN Exit1("args")
       ELSE /\ pc' = "file_in"
            /\ UNCHANGED <<console, exit>>
    /\ UNCHANGED call
    /\ UNCHANGED <<opt, files, fs0, fs, paths, current_reader, grok, sink, stats,
                   headers, a, parsed, ret, opened, yielded, outcome, ioError>>

\* glob::FileInput::new, and main's handling of its result
FileInputNew ==
    /\ pc = "file_in"
    /\ LET all == [i \in 1..Len(files) |-> i] IN
       IF all = <<>>
       THEN /\ Exit1("FileInput")
            /\ UNCHANGED <<paths, current_reader, opened, ioError>>
       ELSE LET n == PathsNext(all) IN
            IF ~OpenInput(n.item)
            THEN /\ Exit1("FileInput")
                 /\ ioError' = TRUE
                 /\ UNCHANGED <<paths, current_reader, opened>>
            ELSE /\ paths' = n.rest
                 /\ current_reader' = [file |-> n.item, pos |-> 0]
                 /\ opened' = Append(opened, n.item)
                 /\ pc' = "grok"
                 /\ UNCHANGED <<console, exit, ioError>>
    /\ UNCHANGED call
    /\ UNCHANGED <<opt, files, fs0, fs, grok, sink, stats, headers, a, parsed, ret,
                   yielded, outcome>>

\* grok_parser::GrokParser::new, and main's handling of its result
GrokParserNew ==
    /\ pc = "grok"
    /\ LET cat == GrokCatalog(opt.patterns, opt.no_patterns) IN
       IF (opt.patterns # "none" /\ ~ReadAliasesOk(opt.patterns))
          \/ ~Compiles(opt.pattern, cat)
       THEN /\ Exit1("GrokParser")
            /\ UNCHANGED grok
       ELSE /\ grok' = cat
            /\ pc' = "output"
            /\ UNCHANGED <<console, exit>>
    /\ UNCHANGED call
    /\ UNCHANGED <<opt, files, fs0, fs, paths, current_reader, sink, stats, headers,
                   a, parsed, ret, opened, yielded, outcome, ioError>>

\* main: the Box<dyn Output>
OutputNew ==
    /\ pc = "output"
    /\ IF opt.output
       THEN IF FileOutputNew(fs)
            THEN /\ sink' = "file"
                 /\ pc' = "read"
                 /\ UNCHANGED <<console, exit>>
            ELSE /\ Exit1("FileOutput")
                 /\ UNCHANGED sink
       ELSE /\ sink' = "print"
            /\ pc' = "read"
            /\ UNCHANGED <<console, exit>>
    /\ UNCHANGED call
    /\ UNCHANGED <<opt, files, fs0, fs, paths, current_reader, grok, stats, headers,
                   a, parsed, ret, opened, yielded, outcome, ioError>>

\* while let Ok(Some(a)) = file_in.read_line()
ReadLine ==
    /\ pc = "read"
    /\ LET r == FileInputReadLine(paths, current_reader) IN
       /\ paths' = r.ps
       /\ current_reader' = r.rd
       /\ opened' = opened \o r.newly
       /\ ret' = r.ret
       /\ ioError' = (ioError \/ r.ret = "err")
       /\ IF r.ret = "some"
          THEN /\ a' = r.line
               /\ yielded' = Append(yielded, r.line)
               /\ pc' = "parse"
          ELSE /\ pc' = "stats"
               /\ UNCHANGED <<a, yielded>>
    /\ UNCHANGED call
    /\ UNCHANGED <<opt, files, fs0, fs, console, grok, sink, stats, headers, parsed,
                   exit, outcome>>

\* grok_parser.parse(&a, &mut stats); the matcher's answer m is an input
Parse ==
    /\ pc = "parse"
    /\ \E m \in MatchResults :
        /\ parsed' = m
        /\ stats' = ParseStats(stats, m)
        /\ outcome' = Append(outcome, m)
        /\ pc' = IF m = NoMatch THEN "nomatch" ELSE "render"
    /\ UNCHANGED call
    /\ UNCHANGED <<opt, files, fs0, fs, console, paths, current_reader, grok, sink,
                   headers, a, exit, ret, opened, yielded, ioError>>

\* Err(e) => { output.output(Err(e))?; continue; }
OutputNoMatch ==
    /\ pc = "nomatch"
    /\ LET o == Output(sink, World, Err([kind |-> "nomatch", line |-> a])) IN
       IF o.ok
       THEN /\ fs' = o.w.fs
            /\ console' = o.w.console
            /\ pc' = "read"
            /\ UNCHANGED exit
       ELSE MainErr(o.w)
    /\ UNCHANGED call
    /\ UNCHANGED <<opt, files, fs0, paths, current_reader, grok, sink, stats, headers,
                   a, parsed, ret, opened, yielded, outcome, ioError>>

\* if opt.csv { .. }
RenderCsv ==
    /\ pc = "render"
    /\ opt.csv
    /\ LET hs   == IF headers = <<>> THEN HeaderOf(parsed.map) ELSE headers
           head == IF headers = <<>>
                   THEN <<Ok([kind |-> "header", cols |-> hs])>> ELSE <<>>
           row  == <<Ok([kind |-> "row", line |-> a, cols |-> ValuesOf(parsed.map)])>>
           o    == OutputAll(sink, World, head \o row)
       IN  /\ headers' = hs
           /\ IF o.ok
              THEN /\ fs' = o.w.fs
                   /\ console' = o.w.console
                   /\ pc' = "read"
                   /\ UNCHANGED exit
              ELSE MainErr(o.w)
    /\ UNCHANGED call
    /\ UNCHANGED <<opt, files, fs0, paths, current_reader, grok, sink, stats, a,
                   parsed, ret, opened, yielded, outcome, ioError>>

\* if opt.json { .. }; serde_json::to_string of a map of strings is Ok
RenderJson ==
    /\ pc = "render"
    /\ opt.json
    /\ LET o == Output(sink, World, Ok([kind |-> "json", line |-> a, keys |-> parsed.map])) IN
       IF o.ok
       THEN /\ fs' = o.w.fs
            /\ console' = o.w.console
            /\ pc' = "read"
            /\ UNCHANGED exit
       ELSE MainErr(o.w)
    /\ UNCHANGED call
    /\ UNCHANGED <<opt, files, fs0, paths, current_reader, grok, sink, stats, headers,
                   a, parsed, ret, opened, yielded, outcome, ioError>>

\* neither opt.csv nor opt.json: the body of the loop ends
RenderNothing ==
    /\ pc = "render"
    /\ ~opt.csv /\ ~opt.json
    /\ pc' = "read"
    /\ UNCHANGED call
    /\ UNCHANGED <<opt, files, fs0, fs, console, paths, current_reader, grok, sink,
                   stats, headers, a, parsed, exit, ret, opened, yielded, outcome,
                   ioError>>

\* the statistics after the loop, and Ok(())
StatsOut ==
    /\ pc = "stats"
    /\ LET rs == IF opt.csv
                 THEN <<Ok([kind |-> "stats_header", cols |-> StatsHeader]),
                        Ok([kind |-> "stats_row", cols |-> StatsRow(stats)])>>
                 ELSE IF opt.json
                 THEN <<Ok([kind |-> "stats_json", parsed |-> stats.parsed,
                            failed |-> stats.failed])>>
                 ELSE <<>>
           o == OutputAll(sink, World, rs)
       IN  IF o.ok
           THEN /\ fs' = o.w.fs
                /\ console' = o.w.console
                /\ exit' = "ok"
                /\ pc' = "done"
           ELSE MainErr(o.w)
    /\ UNCHANGED call
    /\ UNCHANGED <<opt, files, fs0, paths, current_reader, grok, sink, stats, headers,
                   a, parsed, ret, opened, yielded, outcome, ioError>>

Next ==
    \/ CheckArgs
    \/ FileInputNew
    \/ GrokParserNew
    \/ OutputNew
    \/ ReadLine
    \/ Parse
    \/ OutputNoMatch
    \/ RenderCsv
    \/ RenderJson
    \/ RenderNothing
    \/ StatsOut

Spec == Init /\ [][Next]_vars

\* ------------------------------------------------------------- type check
TypeOK ==
    /\ pc \in {"args", "file_in", "grok", "output", "read", "parse", "nomatch",
               "render", "stats", "done"}
    /\ exit \in {"running", "ok", "exit1", "err"}
    /\ (exit = "running") = (pc # "done")
    /\ stats.parsed \in Nat /\ stats.failed \in Nat
    /\ Len(outcome) <= Len(yielded)

\* ---------------------------------------------------- functions on text
\* Text is a sequence of character codes.
Space == 32
IsWhitespace(c) == c \in {9, 10, 13, 32}

\* str::find(' '): the index of the first c in l, 0 for None.
Find(l, c) ==
    IF \E i \in DOMAIN l : l[i] = c
    THEN CHOOSE i \in DOMAIN l : l[i] = c /\ \A j \in 1..(i - 1) : l[j] # c
    ELSE 0

\* str::trim_start and str::trim_end
RECURSIVE TrimStart(_)
TrimStart(t) ==
    IF t # <<>> /\ IsWhitespace(Head(t)) THEN TrimStart(Tail(t)) ELSE t
RECURSIVE TrimEnd(_)
TrimEnd(t) ==
    IF t # <<>> /\ IsWhitespace(t[Len(t)]) THEN TrimEnd(SubSeq(t, 1, Len(t) - 1)) ELSE t

\* PathBuf::join of a relative component: a path is the sequence of its
\* components.
PathJoin(p, c) == Append(p, c)

\* FileOutput::new: let err_path = path.join(".err")
ErrPathOf(path) == PathJoin(path, ".err")

\* BTreeMap::insert on a table kept as a set of [key, value]: the entry of
\* an equal key is replaced.
InsertKeepFirst(m, k, v) ==
    IF \E e \in m : e.key = k THEN m ELSE m \cup {[key |-> k, value |-> v]}
Insert(m, k, v) == {e \in m : e.key # k} \cup {[key |-> k, value |-> v]}

\* read_aliases over the lines of the definition files, in the order they
\* are read: [ok, aliases]; ok is FALSE when l.find(' ').unwrap() panics.
RECURSIVE ReadAliasesFrom(_, _)
ReadAliasesFrom(lines, aliases) ==
    IF lines = <<>> THEN [ok |-> TRUE, aliases |-> aliases]
    ELSE LET l == Head(lines)
             i == Find(l, Space)
         IN  IF i = 0
             THEN [ok |-> FALSE, aliases |-> {}]
             ELSE ReadAliasesFrom(Tail(lines),
                      Insert(aliases, SubSeq(l, 1, i - 1),
                             TrimStart(SubSeq(l, i, Len(l)))))
ReadAliases(lines) == ReadAliasesFrom(lines, {})

\* GrokParser::parse: what is handed to Pattern::match_against, and the
\* text quoted in the "No matches against data" message.
MatchSubject(data) == data
NoMatchText(data) == TrimEnd(data)

\* ------------------------------------------- single calls of the functions
AliasChars == {Space, 97}
Texts == SeqsUpTo(AliasChars, MaxLineLen)
\* A line as BufReader::read_line gives it: with its terminator, which
\* only the last line of a file can lack.
Terminators == {<<>>, <<10>>, <<13, 10>>}
RawLines == {t \o e : t \in Texts, e \in Terminators} \ {<<>>}
OutPaths == {<<"out">>, <<"logs", "out">>, <<"logs", "out.csv">>}

Calls ==
    [fn : {"err_path"}, in : OutPaths, out : {<<>>}, done : {FALSE}]
    \cup [fn : {"read_aliases"}, in : SeqsUpTo(Texts, MaxAliasLines), out : {<<>>},
          done : {FALSE}]
    \cup [fn : {"parse"}, in : RawLines, out : {<<>>}, done : {FALSE}]

program == <<opt, files, fs0, fs, console, paths, current_reader, grok, sink, stats,
             headers, a, parsed, pc, exit, ret, opened, yielded, outcome, ioError>>

InitFn ==
    /\ opt = [pattern |-> "%{IP}", output |-> FALSE, patterns |-> "none",
              no_patterns |-> FALSE, csv |-> FALSE, json |-> FALSE]
    /\ files = <<>>
    /\ fs0 = FreshFs
    /\ ProgramStart
    /\ call \in Calls

ErrPathCall ==
    /\ call.fn = "err_path" /\ ~call.done
    /\ call' = [call EXCEPT !.out = ErrPathOf(call.in), !.done = TRUE]
    /\ UNCHANGED program

ReadAliasesCall ==
    /\ call.fn = "read_aliases" /\ ~call.done
    /\ call' = [call EXCEPT !.out = ReadAliases(call.in), !.done = TRUE]
    /\ UNCHANGED program

ParseCall ==
    /\ call.fn = "parse" /\ ~call.done
    /\ call' = [call EXCEPT !.out = [subject |-> MatchSubject(call.in),
                                     message |-> NoMatchText(call.in)],
                            !.done = TRUE]
    /\ UNCHANGED program

NextFn == ErrPathCall \/ ReadAliasesCall \/ ParseCall

SpecFn == InitFn /\ [][NextFn]_vars


\* ------------------------------------------------- what the claims speak of
\* The two channels of the sink in use.
SuccessChannel == IF sink = "file" THEN fs.data ELSE console.out
ErrorChannel   == IF sink = "file" THEN fs.errdata ELSE console.err

RecordKinds == {"row", "json", "nomatch"}
\* How many records of line l are on channel ch.
RecordsOf(ch, l) ==
    Cardinality({i \in DOMAIN ch : ch[i].kind \in RecordKinds /\ ch[i].line = l})
HeaderIdx(ch) == {i \in DOMAIN ch : ch[i].kind = "header"}
RowIdx(ch)    == {i \in DOMAIN ch : ch[i].kind = "row"}

\* The lines of input file f, in order.
LinesOf(f) == [k \in 1..files[f].len |-> <<f, k>>]
\* The lines of the files f, f+1, .. in order.
RECURSIVE AllLines(_)
AllLines(f) == IF f > Len(files) THEN <<>> ELSE LinesOf(f) \o AllLines(f + 1)
AllReadable == \A i \in DOMAIN files : files[i].fault = "none"

\* The aliases that the patterns directory given on the command line defines.
AliasTable == IF opt.patterns = "dir" THEN Aliases ELSE {}

\* ------------------------------------------------------------------ claims

\* C1 (as claimed): at the end of a run over readable input files, parsed +
\* failed is the number of lines of all the input files together.
C1_AllLinesCounted ==
    (exit = "ok" /\ files # <<>> /\ AllReadable)
        => stats.parsed + stats.failed = SumLen(files)

\* C2 (as claimed): when read_line returns end of stream over readable
\* files, every line of every file has been returned exactly once, in the
\* order of the files and of the lines in them.
C2_EndOfStreamOnlyAtEnd ==
    (ret = "none" /\ AllReadable) => yielded = AllLines(1)

\* C3 (as claimed): the paths are opened last to first, and every line of
\* an opened file is yielded before the next one is opened.
C3_LastToFirst ==
    \A i \in DOMAIN opened :
        /\ opened[i] = Len(files) - i + 1
        /\ i > 1 => Range(LinesOf(opened[i - 1])) \subseteq Range(yielded)

\* C3 (amended): the paths are opened first to last, starting with the first
\* one, and every line of the first file is yielded before the second file
\* is opened.
C3_FirstToLast ==
    /\ \A i \in DOMAIN opened : opened[i] = i
    /\ Len(opened) >= 2 => Range(LinesOf(opened[1])) \subseteq Range(yielded)

C3_Witness ==
    /\ Len(files) = 3
    /\ files[1].len >= 2
    /\ Len(opened) = 2
    /\ Len(yielded) >= 2

\* C4 (as claimed): when the data path or the error path exists before the
\* run, construction of the file sink fails, no file is created or written
\* and no line is processed.
C4_ConflictStopsRun ==
    (opt.output /\ (Exists(fs0.path) \/ Exists(fs0.err)))
        => (sink # "file" /\ fs = fs0 /\ yielded = <<>> /\ exit # "ok")

\* C5 (as claimed): between iterations and at the end, every line that was
\* yielded has exactly one record, on the success channel if it matched and
\* on the error channel if it did not.
C5_ExactlyOneRecord ==
    pc \in {"read", "stats", "done"} =>
        \A i \in DOMAIN outcome :
            LET l == yielded[i] IN
            IF outcome[i].ok
            THEN RecordsOf(SuccessChannel, l) = 1 /\ RecordsOf(ErrorChannel, l) = 0
            ELSE RecordsOf(SuccessChannel, l) = 0 /\ RecordsOf(ErrorChannel, l) = 1

\* C6 (as claimed): in CSV mode the success channel holds at most one header
\* line, and when it holds a data row the header is the line right before
\* the first data row.
C6_HeaderOnce ==
    opt.csv =>
        /\ Cardinality(HeaderIdx(SuccessChannel)) <= 1
        /\ RowIdx(SuccessChannel) # {} =>
              \E h \in HeaderIdx(SuccessChannel) :
                  \A r \in RowIdx(SuccessChannel) : h + 1 <= r /\ (h + 1) \in RowIdx(SuccessChannel)

\* C7 (as claimed): a run in which opening or reading an input file failed
\* does not end as a successful run.
C7_IoFailureIsFatal == ioError => exit # "ok"

\* C8: a call of parse adds one to parsed and leaves failed when the line
\* matches, adds one to failed and leaves parsed when it does not; the
\* counters start at zero, never decrease, and are at every moment the
\* numbers of matching and of non-matching lines parsed so far.
C8_ParseCounts ==
    /\ [](/\ stats.parsed = Cardinality({i \in DOMAIN outcome : outcome[i].ok})
          /\ stats.failed = Cardinality({i \in DOMAIN outcome : ~outcome[i].ok})
          /\ (outcome = <<>> => stats = [parsed |-> 0, failed |-> 0]))
    /\ [][/\ stats'.parsed >= stats.parsed
          /\ stats'.failed >= stats.failed
          /\ (pc = "parse" /\ parsed'.ok)
                => (stats'.parsed = stats.parsed + 1 /\ stats'.failed = stats.failed)
          /\ (pc = "parse" /\ ~parsed'.ok)
                => (stats'.failed = stats.failed + 1 /\ stats'.parsed = stats.parsed)
          /\ pc # "parse" => stats' = stats]_vars

C8_Witness ==
    /\ exit = "ok"
    /\ stats.parsed >= 1
    /\ stats.failed >= 1

\* C9 (as claimed): after a line that did not match, its failure is sent to
\* the error channel and the loop goes on to read the next line.
C9_NoMatchNeverStops ==
    [][pc = "nomatch" => (pc' = "read" /\ RecordsOf(ErrorChannel', a) = 1)]_vars

\* C10 (as claimed): with no_patterns set, a template that refers to a
\* fragment the AliasTable does not define fails at construction: no sink is
\* made, no line is read and the run does not succeed.
C10_NoDefaultFragments ==
    (opt.no_patterns /\ ~(Refs(opt.pattern) \subseteq AliasTable))
        => (/\ pc \in {"args", "file_in", "grok", "done"}
            /\ sink = "none"
            /\ yielded = <<>>
            /\ exit # "ok")

\* Parts of a path.
Parent(p)   == SubSeq(p, 1, Len(p) - 1)
FileName(p) == p[Len(p)]
Beneath(q, p) == Len(q) > Len(p) /\ SubSeq(q, 1, Len(p)) = p

\* C11 (as claimed): the error path derived from data path P has the parent
\* of P and the name of P with ".err" appended, and does not lie beneath P.
C11_ErrPathIsSibling ==
    (call.fn = "err_path" /\ call.done) =>
        /\ Parent(call.out) = Parent(call.in)
        /\ FileName(call.out) = FileName(call.in) \o ".err"
        /\ ~Beneath(call.out, call.in)

\* Where the statistics and the records are on a channel.
StatsIdx(ch)  == {i \in DOMAIN ch : ch[i].kind \in {"stats_row", "stats_json"}}
RecordIdx(ch) == {i \in DOMAIN ch : ch[i].kind \in RecordKinds}

\* C12 (as claimed): the statistics are rendered at most once, only after
\* read_line has signalled end of stream and after every record line, and a
\* run with an output format that ends normally has rendered them.
C12_StatsOnceAfterEnd ==
    /\ Cardinality(StatsIdx(SuccessChannel)) <= 1
    /\ StatsIdx(SuccessChannel) # {} =>
          /\ ret = "none"
          /\ \A i \in StatsIdx(SuccessChannel), j \in RecordIdx(SuccessChannel) : j < i
    /\ (exit = "ok" /\ (opt.csv \/ opt.json)) => StatsIdx(SuccessChannel) # {}

\* FileOutput::new has returned Err and main has printed it.
FileOutputRefused ==
    \E i \in DOMAIN console.err :
        console.err[i].kind = "fatal" /\ console.err[i].src = "FileOutput"

\* C13 (as claimed): with a file destination whose data path and error path
\* do not exist, construction of the sink does not fail, and the files that
\* the writes then create hold exactly what was written.
C13_FreshDestinationAccepted ==
    (opt.output /\ ~Exists(fs0.path) /\ ~Exists(fs0.err)) =>
        /\ ~FileOutputRefused
        /\ pc \in {"read", "parse", "nomatch", "render", "stats"} => sink = "file"
        /\ fs.data # <<>> => fs.path = "file"
        /\ fs.errdata # <<>> => fs.err = "file"

\* C14 (as claimed): in CSV mode column i of a header line names the field
\* whose value is in column i of the data row written right after it.
C14_HeaderMatchesValues ==
    opt.csv =>
        \A h \in HeaderIdx(SuccessChannel) :
            (h + 1) \in RowIdx(SuccessChannel) =>
                LET head == SuccessChannel[h].cols
                    row  == SuccessChannel[h + 1].cols
                IN  /\ Len(head) = Len(row)
                    /\ \A i \in DOMAIN row : head[i] = Quote(row[i])

\* The lines that are not empty.
NonEmptyLines(lines) == SelectSeq(lines, LAMBDA l : l # <<>>)

\* C15 (as claimed): loading definition lines gives what loading them
\* without the empty lines gives: the same success and the same table.
C15_BlankLinesIgnored ==
    (call.fn = "read_aliases" /\ call.done) =>
        call.out = ReadAliases(NonEmptyLines(call.in))

\* C16 (as claimed): the text handed to the matcher is the line without its
\* trailing whitespace, so it never ends with a line terminator.
C16_MatcherSeesTrimmedLine ==
    (call.fn = "parse" /\ call.done) =>
        /\ call.out.subject = TrimEnd(call.in)
        /\ call.out.subject # <<>> => ~IsWhitespace(call.out.subject[Len(call.out.subject)])

\* The names "parsed" and "failed".
NameParsed == <<112, 97, 114, 115, 101, 100>>
NameFailed == <<102, 97, 105, 108, 101, 100>>
StatsHeaderIdx(ch) == {i \in DOMAIN ch : ch[i].kind = "stats_header"}
StatsRowIdx(ch)    == {i \in DOMAIN ch : ch[i].kind = "stats_row"}

\* The success channel of a CSV run that has ended normally ends with the
\* only statistics block: a header line with the columns head and one data
\* line with the parsed and the failed counter, in that order.
StatsBlockIs(head) ==
    (opt.csv /\ exit = "ok") =>
        LET ch == SuccessChannel
            n  == Len(ch)
        IN  /\ n >= 2
            /\ StatsHeaderIdx(ch) = {n - 1}
            /\ StatsRowIdx(ch) = {n}
            /\ ch[n - 1].cols = head
            /\ ch[n].cols = <<stats.parsed, stats.failed>>

\* C17 (as claimed): the block's header holds the two names in double
\* quotes.
C17_StatsHeaderQuoted == StatsBlockIs(<<Quote(NameParsed), Quote(NameFailed)>>)

\* C17 (amended): the block's header holds the two names without quotes.
C17_StatsHeaderPlain == StatsBlockIs(<<NameParsed, NameFailed>>)

C17_Witness ==
    /\ opt.csv
    /\ exit = "ok"
    /\ stats.parsed = 0
    /\ stats.failed = 2
    /\ Len(SuccessChannel) = 2

IsPrefix(s, t) == Len(s) <= Len(t) /\ SubSeq(t, 1, Len(s)) = s
\* The place of line l among the lines read.
PosOf(l) == CHOOSE p \in DOMAIN yielded : yielded[p] = l
InReadOrder(ch) ==
    \A i, j \in RecordIdx(ch) : i < j => PosOf(ch[i].line) < PosOf(ch[j].line)

\* C18: every step only appends to the data file, the error file, stdout
\* and stderr; a step that writes to a success destination leaves the error
\* destinations as they were and one that writes to an error destination
\* leaves the success destinations; and on each of them the records are in
\* the order in which their lines were read.
C18_AppendOnly ==
    /\ [][/\ IsPrefix(fs.data, fs'.data)
          /\ IsPrefix(fs.errdata, fs'.errdata)
          /\ IsPrefix(console.out, console'.out)
          /\ IsPrefix(console.err, console'.err)
          /\ (fs'.data # fs.data \/ console'.out # console.out)
                => (fs'.errdata = fs.errdata /\ console'.err = console.err)
          /\ (fs'.errdata # fs.errdata \/ console'.err # console.err)
                => (fs'.data = fs.data /\ console'.out = console.out)]_vars
    /\ [](/\ InReadOrder(fs.data)
          /\ InReadOrder(fs.errdata)
          /\ InReadOrder(console.out)
          /\ InReadOrder(console.err))

C18_Witness ==
    /\ sink = "file"
    /\ Len(fs.data) >= 3
    /\ fs.data[1].kind = "old"
    /\ fs.data[2].kind = "json"
    /\ fs.data[3].kind = "json"

\* What a definition line says, read off the line itself: its name is the
\* text before its first space, its definition the text after that space
\* and after the whitespace that follows it.
HasSpace(l) == \E n \in DOMAIN l : l[n] = Space
NameIs(l, k) ==
    \E n \in DOMAIN l :
        /\ l[n] = Space
        /\ \A m \in 1..(n - 1) : l[m] # Space
        /\ k = SubSeq(l, 1, n - 1)
DefinitionIs(l, v) ==
    \E n \in DOMAIN l :
        /\ l[n] = Space
        /\ \A m \in 1..(n - 1) : l[m] # Space
        /\ \E t \in n..Len(l) :
              /\ \A m \in n..t : IsWhitespace(l[m])
              /\ t = Len(l) \/ ~IsWhitespace(l[t + 1])
              /\ v = SubSeq(l, t + 1, Len(l))
SameName(l1, l2) == \E n \in 0..Len(l1) : NameIs(l1, SubSeq(l1, 1, n)) /\ NameIs(l2, SubSeq(l1, 1, n))
Keys(m) == {e.key : e \in m}

====
